---- MODULE Spec2Model ----
(***************************************************************************)
(* A model of pyobis: the helpers of pyobis/obisutils.py (handle_arrstr,   *)
(* build_api_url, obis_GET, stopifnot) and the taxa facade of              *)
(* pyobis/taxa/taxa.py (OBISQueryResult).                                  *)
(*                                                                         *)
(* Python values are records tagged with the name of their class, as       *)
(* x.__class__.__name__ gives it.  A str is a sequence of one-character    *)
(* strings; the literals of the source that are only ever concatenated     *)
(* (the base URLs) are kept as one element.  The outcome of a call is      *)
(* either Return(value) or Raise(exception class).                         *)
(***************************************************************************)
EXTENDS Integers, Sequences, FiniteSets, TLC

\* ------------------------------------------------------------------ bounds
MaxLen == 2      \* longest string given as a name or as a query value
MaxList == 2     \* longest list given as a name
MaxArgs == 2     \* most entries of a query-argument mapping given to build_api_url

\* ------------------------------------------------------------ Python values
None == [t |-> "NoneType"]
PyStr(s) == [t |-> "str", v |-> s]
PyInt(n) == [t |-> "int", v |-> n]
PyList(xs) == [t |-> "list", v |-> xs]
\* a dict in insertion order: a sequence of <<key, value>> with distinct keys
PyDict(items) == [t |-> "dict", v |-> items]
\* an attribute that was never assigned (OBISQueryResult.__init__ assigns none)
Unset == [t |-> "unset"]

Return(val) == [t |-> "return", v |-> val]
Raise(exc) == [t |-> "raise", v |-> exc]
Pending == [t |-> "pending"]

\* ---------------------------------------------------------------- constants
obis_baseurl == PyStr(<<"https://api.obis.org/v3/">>)
mapper_baseurl == PyStr(<<"https://mapper.obis.org/">>)
json_ctype == "application/json; charset=utf-8"
k_scientificname == PyStr(<<"s","c","i","e","n","t","i","f","i","c","n","a","m","e">>)
k_taxonid == PyStr(<<"t","a","x","o","n","i","d">>)

\* ------------------------------------------------------------- str builtins
DigitChar(d) ==
  CASE d = 0 -> "0" [] d = 1 -> "1" [] d = 2 -> "2" [] d = 3 -> "3" [] d = 4 -> "4"
    [] d = 5 -> "5" [] d = 6 -> "6" [] d = 7 -> "7" [] d = 8 -> "8" [] d = 9 -> "9"

RECURSIVE NatDigits(_)
NatDigits(n) == IF n < 10 THEN <<DigitChar(n)>> ELSE NatDigits(n \div 10) \o <<DigitChar(n % 10)>>

\* ------------------------------------------------------------ characters
\* the characters of code 32 to 95, in order
Ascii ==
  <<
    " ", "!", "\"", "#", "$", "%", "&", "'", "(", ")", "*", "+", ",", "-", ".", "/",
    "0", "1", "2", "3", "4", "5", "6", "7", "8", "9", ":", ";", "<", "=", ">", "?",
    "@", "A", "B", "C", "D", "E", "F", "G", "H", "I", "J", "K", "L", "M", "N", "O",
    "P", "Q", "R", "S", "T", "U", "V", "W", "X", "Y", "Z", "[", "\\", "]", "^", "_"
  >>
\* the characters of code 97 to 126, in order
Lower ==
  <<
    "a", "b", "c", "d", "e", "f", "g", "h", "i", "j", "k", "l", "m", "n", "o", "p",
    "q", "r", "s", "t", "u", "v", "w", "x", "y", "z", "{", "|", "}", "~"
  >>
\* the characters of code 160 to 255, in order
Latin1 ==
  <<
    " ", "¡", "¢", "£", "¤", "¥", "¦", "§", "¨", "©", "ª", "«", "¬", "­", "®", "¯",
    "°", "±", "²", "³", "´", "µ", "¶", "·", "¸", "¹", "º", "»", "¼", "½", "¾", "¿",
    "À", "Á", "Â", "Ã", "Ä", "Å", "Æ", "Ç", "È", "É", "Ê", "Ë", "Ì", "Í", "Î", "Ï",
    "Ð", "Ñ", "Ò", "Ó", "Ô", "Õ", "Ö", "×", "Ø", "Ù", "Ú", "Û", "Ü", "Ý", "Þ", "ß",
    "à", "á", "â", "ã", "ä", "å", "æ", "ç", "è", "é", "ê", "ë", "ì", "í", "î", "ï",
    "ð", "ñ", "ò", "ó", "ô", "õ", "ö", "÷", "ø", "ù", "ú", "û", "ü", "ý", "þ", "ÿ"
  >>

\* the first position of c in s, 0 when it has none
RECURSIVE IndexOf(_, _, _)
IndexOf(s, c, i) == IF i > Len(s) THEN 0 ELSE IF s[i] = c THEN i ELSE IndexOf(s, c, i + 1)

\* ord(c), for the characters a string of the model can hold: tab, newline,
\* form feed, carriage return, and the codes 32 to 95, 97 to 126 and 160 to 255
ord(c) ==
  CASE c = "\t" -> 9
    [] c = "\n" -> 10
    [] c = "\f" -> 12
    [] c = "\r" -> 13
    [] IndexOf(Ascii, c, 1) # 0 -> 31 + IndexOf(Ascii, c, 1)
    [] IndexOf(Lower, c, 1) # 0 -> 96 + IndexOf(Lower, c, 1)
    [] IndexOf(Latin1, c, 1) # 0 -> 159 + IndexOf(Latin1, c, 1)

\* c.encode("utf-8") as a sequence of byte values
utf8(cp) ==
  IF cp < 128 THEN <<cp>>
  ELSE IF cp < 2048 THEN <<192 + (cp \div 64), 128 + (cp % 64)>>
  ELSE IF cp < 65536
  THEN <<224 + (cp \div 4096), 128 + ((cp \div 64) % 64), 128 + (cp % 64)>>
  ELSE <<240 + (cp \div 262144), 128 + ((cp \div 4096) % 64), 128 + ((cp \div 64) % 64),
         128 + (cp % 64)>>

HexChar(n) == <<"0", "1", "2", "3", "4", "5", "6", "7", "8", "9", "A", "B", "C", "D", "E", "F">>[n + 1]

\* "%XX" for each byte
RECURSIVE percent(_)
percent(bytes) ==
  IF bytes = <<>> THEN <<>>
  ELSE <<"%", HexChar(Head(bytes) \div 16), HexChar(Head(bytes) % 16)>> \o percent(Tail(bytes))

\* ------------------------------------------------------------- str, repr
LowerHexChar(n) == <<"0", "1", "2", "3", "4", "5", "6", "7", "8", "9", "a", "b", "c", "d", "e", "f">>[n + 1]

\* repr of one character of a str written between the quotes q
repr_char(c, q) ==
  CASE c = "\\" -> <<"\\", "\\">>
    [] c = q -> <<"\\", q>>
    [] c = "\t" -> <<"\\", "t">>
    [] c = "\n" -> <<"\\", "n">>
    [] c = "\r" -> <<"\\", "r">>
    [] c = "\f" \/ ord(c) = 160 \/ ord(c) = 173 ->
         <<"\\", "x", LowerHexChar(ord(c) \div 16), LowerHexChar(ord(c) % 16)>>
    [] OTHER -> <<c>>

RECURSIVE repr_chars(_, _)
repr_chars(s, q) == IF s = <<>> THEN <<>> ELSE repr_char(Head(s), q) \o repr_chars(Tail(s), q)

\* repr of a str: between single quotes, between double quotes when it
\* holds a single quote and no double quote
repr_str(s) ==
  LET q == IF IndexOf(s, "'", 1) # 0 /\ IndexOf(s, "\"", 1) = 0 THEN "\"" ELSE "'"
  IN <<q>> \o repr_chars(s, q) \o <<q>>

RECURSIVE py_repr(_)
RECURSIVE repr_elements(_, _)
RECURSIVE repr_items(_, _)
\* the elements of a list, ", " between them
repr_elements(xs, i) ==
  IF i > Len(xs) THEN <<>>
  ELSE (IF i = 1 THEN <<>> ELSE <<",", " ">>) \o py_repr(xs[i]) \o repr_elements(xs, i + 1)

\* the items of a dict as key: value, ", " between them
repr_items(items, i) ==
  IF i > Len(items) THEN <<>>
  ELSE (IF i = 1 THEN <<>> ELSE <<",", " ">>)
       \o py_repr(items[i][1]) \o <<":", " ">> \o py_repr(items[i][2])
       \o repr_items(items, i + 1)

\* repr(x)
py_repr(x) ==
  CASE x.t = "str" -> repr_str(x.v)
    [] x.t = "int" -> IF x.v < 0 THEN <<"-">> \o NatDigits(-x.v) ELSE NatDigits(x.v)
    [] x.t = "NoneType" -> <<"N", "o", "n", "e">>
    [] x.t = "list" -> <<"[">> \o repr_elements(x.v, 1) \o <<"]">>
    [] x.t = "dict" -> <<"{">> \o repr_items(x.v, 1) \o <<"}">>

\* str(x): a str is itself, the other values their repr
py_str(x) == IF x.t = "str" THEN x ELSE PyStr(py_repr(x))

\* variant: both operands through str() first, as in an f-string
str_add_coerce(a, b) == Return(PyStr(py_str(a).v \o py_str(b).v))

\* s1 + s2 of two values: str + str concatenates, anything else is a TypeError
str_add(a, b) ==
  IF a.t = "str" /\ b.t = "str" THEN Return(PyStr(a.v \o b.v)) ELSE Raise("TypeError")

\* bool(x)
truthy(x) ==
  CASE x.t = "NoneType" -> FALSE
    [] x.t = "str" -> x.v # <<>>
    [] x.t = "int" -> x.v # 0
    [] x.t = "list" -> x.v # <<>>
    [] x.t = "dict" -> x.v # <<>>

\* sep.join(x): x must be iterable and every element a str
RECURSIVE join_from(_, _, _, _)
join_from(sep, xs, i, acc) ==
  IF i > Len(xs) THEN Return(PyStr(acc))
  ELSE IF xs[i].t # "str" THEN Raise("TypeError")
  ELSE join_from(sep, xs, i + 1, IF i = 1 THEN xs[i].v ELSE acc \o sep \o xs[i].v)

\* a list gives its elements, a str its characters, a dict its keys
str_join(sep, x) ==
  CASE x.t = "list" -> join_from(sep, x.v, 1, <<>>)
    [] x.t = "str" -> join_from(sep, [i \in 1..Len(x.v) |-> PyStr(<<x.v[i]>>)], 1, <<>>)
    [] x.t = "dict" -> join_from(sep, [i \in 1..Len(x.v) |-> x.v[i][1]], 1, <<>>)
    [] OTHER -> Raise("TypeError")

\* ------------------------------------------------------------ handle_arrstr
\* variant: joined with the empty separator
handle_arrstr_nosep(x) ==
  IF x.t = "NoneType" THEN Return(None)
  ELSE IF x.t = "str" THEN Return(x)
  ELSE str_join(<<>>, x)

handle_arrstr(x) ==
  IF x.t = "NoneType" THEN Return(None)
  ELSE IF x.t = "str" THEN Return(x)
  ELSE str_join(<<",">>, x)


\* ------------------------------------------------- urllib.parse.urlencode
\* the characters quote never encodes: letters, digits and _ . - ~
always_safe ==
  {"A", "B", "C", "D", "E", "F", "G", "H", "I", "J", "K", "L", "M", "N", "O", "P", "Q", "R",
   "S", "T", "U", "V", "W", "X", "Y", "Z", "a", "b", "c", "d", "e", "f", "g", "h", "i", "j",
   "k", "l", "m", "n", "o", "p", "q", "r", "s", "t", "u", "v", "w", "x", "y", "z",
   "0", "1", "2", "3", "4", "5", "6", "7", "8", "9", "_", ".", "-", "~"}

\* quote_plus of one character: a space becomes "+", a character that is
\* not always safe becomes the %XX of each byte of its UTF-8 encoding
quote_char(c) ==
  IF c = " " THEN <<"+">>
  ELSE IF c \in always_safe THEN <<c>>
  ELSE percent(utf8(ord(c)))


RECURSIVE quote_plus(_)
quote_plus(s) == IF s = <<>> THEN <<>> ELSE quote_char(Head(s)) \o quote_plus(Tail(s))

RECURSIVE urlencode_from(_, _)
urlencode_from(items, i) ==
  IF i > Len(items) THEN <<>>
  ELSE (IF i = 1 THEN <<>> ELSE <<"&">>)
       \o quote_plus(py_str(items[i][1]).v) \o <<"=">> \o quote_plus(py_str(items[i][2]).v)
       \o urlencode_from(items, i + 1)

urlencode(d) == PyStr(urlencode_from(d.v, 1))

\* {k: v for k, v in args.items() if v is not None}
RECURSIVE not_none_items(_)
not_none_items(items) ==
  IF items = <<>> THEN <<>>
  ELSE (IF Head(items)[2] # None THEN <<Head(items)>> ELSE <<>>) \o not_none_items(Tail(items))

RECURSIVE truthy_items(_)
truthy_items(items) ==
  IF items = <<>> THEN <<>>
  ELSE (IF truthy(Head(items)[2]) THEN <<Head(items)>> ELSE <<>>) \o truthy_items(Tail(items))

\* variant: "if v" in place of "if v is not None"
build_api_url_truthy(url, args) ==
  PyStr(url.v \o <<"?">> \o urlencode(PyDict(truthy_items(args.v))).v)

build_api_url(url, args) ==
  PyStr(url.v \o <<"?">> \o urlencode(PyDict(not_none_items(args.v))).v)

\* the string a sequence of characters and literals stands for
RECURSIVE Flat(_)
Flat(s) == IF s = <<>> THEN "" ELSE Head(s) \o Flat(Tail(s))

\* ------------------------------------------------------------ dict access
RECURSIVE key_index(_, _, _)
key_index(items, k, i) ==
  IF i > Len(items) THEN 0 ELSE IF items[i][1] = k THEN i ELSE key_index(items, k, i + 1)

\* k in d
has_key(d, k) == key_index(d.v, k, 1) # 0
\* d[k] when k in d
dict_get(d, k) == d.v[key_index(d.v, k, 1)][2]
\* d[k] = val: an existing key keeps its place, a new one is appended
dict_set(d, k, val) ==
  IF has_key(d, k)
  THEN PyDict([d.v EXCEPT ![key_index(d.v, k, 1)] = <<k, val>>])
  ELSE PyDict(Append(d.v, <<k, val>>))


\* variant: d.get(k), None for a missing key
dict_item_get(d, k) == Return(IF has_key(d, k) THEN dict_get(d, k) ELSE None)

\* d[k] as an outcome: a KeyError for a missing key
dict_item(d, k) == IF has_key(d, k) THEN Return(dict_get(d, k)) ELSE Raise("KeyError")

\* ------------------------------------------------------------------ state
Threads == {"t1", "t2"}
Facades == {"f1", "f2"}

VARIABLES
  attrs,    \* attrs[f]: the attributes url and args of facade instance f
  pc,       \* pc[t]: the line thread t stands at, "idle" between calls
  frame,    \* frame[t]: the arguments and locals of thread t's current (or last) call
  result,   \* result[t]: how thread t's last call ended, Pending while it runs
  last,     \* last[f]: the most recent search/taxon/annotations call begun on f
  pure      \* a call of a helper function: its name, argument and outcome

vars == <<attrs, pc, frame, result, last, pure>>

NoCall == [op |-> "none", arg |-> Unset, by |-> "none", out |-> Pending]
Call(op, x, t) == [op |-> op, arg |-> x, by |-> t, out |-> Pending]
NoPure == [fn |-> "none", arg |-> <<>>, out |-> Pending]
NoAttrs == [url |-> Unset, args |-> Unset]

\* a frame: op and self name the call, arg is its argument, scientificname
\* the local of search and annotations (and the parameter of lookup_taxon),
\* url/args/ctype the arguments obis_GET was given, resp the response of
\* requests.get, sent the request issued, id the identifier looked up,
\* reached the steps of the fetch the call got to; raced tells that another
\* thread assigned an attribute of self, or an item of its args, while the
\* call ran.  it is the state of the call's iterator over self.args.items():
\* "none", "on" (the dict iterated is still the attribute), "off" (the
\* attribute has been assigned another dict since; args is then the dict
\* iterated) or "changed" (the dict iterated got a new key)
NewFrame(op, f, x) ==
  [op |-> op, self |-> f, arg |-> x, scientificname |-> Unset,
   url |-> Unset, args |-> Unset, ctype |-> "", resp |-> Unset, sent |-> Unset,
   id |-> Unset, reached |-> {}, raced |-> FALSE, held |-> "none", it |-> "none"]

InitFrame == NewFrame("none", "none", Unset)

\* OBISQueryResult(): __init__ assigns no attribute
InitFacade ==
  /\ attrs = [f \in Facades |-> NoAttrs]
  /\ pc = [t \in Threads |-> "idle"]
  /\ frame = [t \in Threads |-> InitFrame]
  /\ result = [t \in Threads |-> Pending]
  /\ last = [f \in Facades |-> NoCall]

\* self.<name> = val on instance f
\* variant: the attribute on the class, shared by every instance
store_attr_class(a, f, name, val) == [g \in Facades |-> [a[g] EXCEPT ![name] = val]]

store_attr(a, f, name, val) == [a EXCEPT ![f][name] = val]

\* the frames after thread t assigned self.url of f: the other threads in a
\* call on f have been raced
Raced(fr, t, f) ==
  [u \in Threads |->
     IF u # t /\ pc[u] # "idle" /\ fr[u].self = f THEN [fr[u] EXCEPT !.raced = TRUE]
     ELSE fr[u]]

\* the args of a frame name a dict object: held (in a fetch call) or it (an
\* iterator over its items) is "on" while that dict is the attribute
\* self.args of the facade, and "off" once the attribute was assigned anew
\*
\* the frames after thread t assigned self.args of f a new dict: the other
\* threads in a call on f have been raced, and the dict they hold or iterate
\* stays the one it was
Replaced(fr, t, f) ==
  [u \in Threads |->
     IF u # t /\ pc[u] # "idle" /\ fr[u].self = f
     THEN [fr[u] EXCEPT !.raced = TRUE,
                        !.held = IF @ = "on" THEN "off" ELSE @,
                        !.it = IF @ = "on" THEN "off" ELSE @]
     ELSE fr[u]]

\* the frames after thread t assigned an item of the dict self.args of f,
\* which made it the dict d: the other threads in a call on f have been
\* raced, the ones that hold or iterate that dict see d, and an iterator
\* over it finds its size changed when the item is new
Mutated(fr, t, f, d, grew) ==
  [u \in Threads |->
     IF u # t /\ pc[u] # "idle" /\ fr[u].self = f
     THEN [fr[u] EXCEPT !.raced = TRUE,
                        !.args = IF fr[u].held = "on" \/ fr[u].it = "on" THEN d ELSE @,
                        !.it = IF @ = "on" /\ grew THEN "changed" ELSE @]
     ELSE fr[u]]

\* the call of thread t ends with outcome out and lets go of the dict it
\* held or iterated; la is the record of the last calls, which takes the
\* outcome when the call is the last begun on its facade
Finish(t, fr, out, la) ==
  /\ frame' = [fr EXCEPT ![t].held = "none", ![t].it = "none"]
  /\ result' = [result EXCEPT ![t] = out]
  /\ pc' = [pc EXCEPT ![t] = "idle"]
  /\ last' = [f \in Facades |->
                IF f = fr[t].self /\ la[f].by = t /\ la[f].out = Pending
                THEN [la[f] EXCEPT !.out = out] ELSE la[f]]

\* the call of thread t goes on at line l
Goto(t, fr, l, la) ==
  /\ frame' = fr
  /\ result' = [result EXCEPT ![t] = Pending]
  /\ pc' = [pc EXCEPT ![t] = l]
  /\ last' = la

\* ------------------------------------------------- OBISQueryResult: calls
\* search, lines 31-32: normalise the name, build and assign self.url
search(t, f, x) ==
  /\ pc[t] = "idle"
  /\ pure' = pure
  /\ LET fr0 == NewFrame("search", f, x)
         sn == handle_arrstr(x)
         u == IF sn.t = "raise" THEN sn
              ELSE str_add(str_add(obis_baseurl, PyStr(<<"taxon/">>)).v, sn.v)
     IN IF u.t = "raise"
        THEN /\ attrs' = attrs
             /\ Finish(t, [frame EXCEPT ![t] = fr0], u,
                       [last EXCEPT ![f] = Call("search", x, t)])
        ELSE /\ attrs' = store_attr(attrs, f, "url", u.v)
             /\ Goto(t, Raced([frame EXCEPT ![t] = [fr0 EXCEPT !.scientificname = sn.v]], t, f),
                     "search_33", [last EXCEPT ![f] = Call("search", x, t)])

\* variant: line 33 left out
search_args_skip(t) ==
  /\ pc[t] = "search_33"
  /\ attrs' = attrs
  /\ Goto(t, frame, "load_url", last)
  /\ UNCHANGED pure

\* search, line 33: assign self.args
search_args(t) ==
  /\ pc[t] = "search_33"
  /\ attrs' = store_attr(attrs, frame[t].self, "args",
                         PyDict(<< <<k_scientificname, frame[t].scientificname>> >>))
  /\ Goto(t, Replaced(frame, t, frame[t].self), "load_url", last)
  /\ UNCHANGED pure

\* taxon, line 59: assign self.url
taxon(t, f, id) ==
  /\ pc[t] = "idle"
  /\ pure' = pure
  /\ attrs' = store_attr(attrs, f, "url",
                         str_add(str_add(obis_baseurl, PyStr(<<"taxon/">>)).v, py_str(id)).v)
  /\ Goto(t, Raced([frame EXCEPT ![t] = NewFrame("taxon", f, id)], t, f), "taxon_60",
          [last EXCEPT ![f] = Call("taxon", id, t)])

\* taxon, line 60: assign self.args
taxon_args(t) ==
  /\ pc[t] = "taxon_60"
  /\ attrs' = store_attr(attrs, frame[t].self, "args", PyDict(<<>>))
  /\ Goto(t, Replaced(frame, t, frame[t].self), "load_url", last)
  /\ UNCHANGED pure

\* annotations, line 77: assign self.url
annotations(t, f, x) ==
  /\ pc[t] = "idle"
  /\ pure' = pure
  /\ attrs' = store_attr(attrs, f, "url",
                         str_add(obis_baseurl, PyStr(<<"taxon/annotations">>)).v)
  /\ Goto(t, Raced([frame EXCEPT ![t] = NewFrame("annotations", f, x)], t, f),
          "annotations_78", [last EXCEPT ![f] = Call("annotations", x, t)])

\* annotations, lines 78-79: normalise the name and assign self.args
annotations_args(t) ==
  /\ pc[t] = "annotations_78"
  /\ UNCHANGED pure
  /\ LET sn == handle_arrstr(frame[t].arg)
     IN IF sn.t = "raise"
        THEN /\ attrs' = attrs
             /\ Finish(t, frame, sn, last)
        ELSE /\ attrs' = store_attr(attrs, frame[t].self, "args",
                                    PyDict(<< <<k_scientificname, sn.v>> >>))
             /\ Goto(t, Replaced([frame EXCEPT ![t].scientificname = sn.v], t, frame[t].self),
                     "load_url", last)

\* the arguments of the obis_GET call are evaluated: self.url, then self.args
load_self_url(t) ==
  /\ pc[t] = "load_url"
  /\ Goto(t, [frame EXCEPT ![t].url = attrs[frame[t].self].url], "load_args", last)
  /\ UNCHANGED <<attrs, pure>>

\* args of obis_GET is the dict object that is self.args now
load_self_args(t) ==
  /\ pc[t] = "load_args"
  /\ Goto(t, [frame EXCEPT ![t].args = attrs[frame[t].self].args, ![t].held = "on",
                           ![t].ctype = json_ctype],
          "obis_GET_24", last)
  /\ UNCHANGED <<attrs, pure>>

\* the caller's statement q.args = a: the one way the args of a facade come
\* to hold the "taxonid" key that line 118 reads
assign_args(t, f, a) ==
  /\ pc[t] = "idle"
  /\ pure' = pure
  /\ attrs' = store_attr(attrs, f, "args", a)
  /\ Finish(t, Replaced([frame EXCEPT ![t] = NewFrame("assign", f, a)], t, f), Return(None),
            [last EXCEPT ![f] = [op |-> "assign", arg |-> a, by |-> t, out |-> Return(None)]])

\* ------------------------------------------------------------- obis_GET
\* a response: its status, its headers (the value of content-type when it
\* has one) and what out.json() makes of its body; status 0 is a request that
\* got no response, body then holds the exception of requests.get
NoHeader == <<>>
Header(x) == <<x>>
Response(status, headers, body) == [status |-> status, headers |-> headers, body |-> body]
NoResponse == Response(0, NoHeader, Raise("ConnectionError"))
Doc == PyDict(<< <<PyStr(<<"total">>), PyInt(1)>> >>)

\* line 24: out = requests.get(url, params = args, headers = headers); the
\* request carries what the dict args holds at the call
requests_get(t, Responses) ==
  /\ pc[t] = "obis_GET_24"
  /\ UNCHANGED <<attrs, pure>>
  /\ \E r \in Responses :
       LET fr == [frame EXCEPT ![t].sent = [to |-> "obis_GET", url |-> frame[t].url,
                                            params |-> frame[t].args],
                               ![t].reached = @ \cup {"requests.get"},
                               ![t].resp = r]
       IN IF r.status = 0 THEN Finish(t, fr, r.body, last) ELSE Goto(t, fr, "obis_GET_25", last)

\* variant: the status is not looked at
raise_for_status_never(t) ==
  /\ pc[t] = "obis_GET_25"
  /\ UNCHANGED <<attrs, pure>>
  /\ Goto(t, [frame EXCEPT ![t].reached = @ \cup {"raise_for_status"}], "obis_GET_26", last)

\* line 25: out.raise_for_status() raises for a status of 400 to 599
raise_for_status(t) ==
  /\ pc[t] = "obis_GET_25"
  /\ UNCHANGED <<attrs, pure>>
  /\ LET fr == [frame EXCEPT ![t].reached = @ \cup {"raise_for_status"}]
     IN IF frame[t].resp.status >= 400 /\ frame[t].resp.status < 600
        THEN Finish(t, fr, Raise("HTTPError"), last)
        ELSE Goto(t, fr, "obis_GET_26", last)

\* the media type of a content-type, without its parameters
MediaType(x) ==
  CASE x = "application/json; charset=utf-8" -> "application/json"
    [] x = "application/json; charset=UTF-8" -> "application/json"
    [] OTHER -> x

\* variant: only the media types are compared
stopifnot_media(x, ctype) ==
  IF MediaType(x) # MediaType(ctype) THEN Raise("NoResultException") ELSE Return(None)

stopifnot(x, ctype) ==
  IF x # ctype THEN Raise("NoResultException") ELSE Return(None)

\* line 26: stopifnot(out.headers["content-type"], ctype); the subscript is
\* a KeyError when the response has no such header
obis_GET_stopifnot(t) ==
  /\ pc[t] = "obis_GET_26"
  /\ UNCHANGED <<attrs, pure>>
  /\ IF frame[t].resp.headers = NoHeader
     THEN Finish(t, frame, Raise("KeyError"), last)
     ELSE LET fr == [frame EXCEPT ![t].reached = @ \cup {"stopifnot"}]
              chk == stopifnot(frame[t].resp.headers[1], frame[t].ctype)
          IN IF chk.t = "raise" THEN Finish(t, fr, chk, last) ELSE Goto(t, fr, "obis_GET_27", last)

\* line 27: return out.json()
obis_GET_json(t) ==
  /\ pc[t] = "obis_GET_27"
  /\ UNCHANGED <<attrs, pure>>
  /\ Finish(t, [frame EXCEPT ![t].reached = @ \cup {"json"}], frame[t].resp.body, last)

\* a caller of obis_GET(url, args, ctype) outside the facade
obis_GET(t, url, args, ctype) ==
  /\ pc[t] = "idle"
  /\ UNCHANGED <<attrs, pure>>
  /\ Goto(t, [frame EXCEPT ![t] = [NewFrame("obis_GET", "none", Unset) EXCEPT
                                     !.url = url, !.args = args, !.ctype = ctype]],
          "obis_GET_24", last)

\* ------------------------------------------------ iterating self.args.items()
\* what the comprehension {k:v for k, v in self.args.items() if not v == None}
\* of thread t comes to: the items of the dict the frame iterates; a dict
\* that got a new key since the iterator was made is a RuntimeError
\* ("dictionary changed size during iteration")
items_iterated(t) ==
  IF frame[t].it = "changed" THEN Raise("RuntimeError") ELSE Return(frame[t].args)

\* --------------------------------------------------------- get_search_url
\* line 102: self.url + "?" + urlencode({k:v for k, v in self.args.items() if not v == None})
\* variant: "if v" in place of "if not v == None"
get_search_url_value_truthy(url, args) ==
  PyStr(url.v \o <<"?">> \o urlencode(PyDict(truthy_items(args.v))).v)

get_search_url_value(url, args) ==
  PyStr(url.v \o <<"?">> \o urlencode(PyDict(not_none_items(args.v))).v)

\* line 102, self.url is read: an AttributeError when it was never assigned
get_search_url(t, f) ==
  /\ pc[t] = "idle"
  /\ UNCHANGED <<attrs, pure>>
  /\ LET fr == [frame EXCEPT ![t] = NewFrame("get_search_url", f, Unset)]
     IN IF attrs[f].url = Unset
        THEN Finish(t, fr, Raise("AttributeError"), last)
        ELSE Goto(t, [fr EXCEPT ![t].url = attrs[f].url], "get_search_url_args", last)

\* line 102, self.args is read (an AttributeError when it was never
\* assigned) and the iterator over its items made
get_search_url_args(t) ==
  /\ pc[t] = "get_search_url_args"
  /\ UNCHANGED <<attrs, pure>>
  /\ LET a == attrs[frame[t].self].args
     IN IF a = Unset
        THEN Finish(t, frame, Raise("AttributeError"), last)
        ELSE Goto(t, [frame EXCEPT ![t].args = a, ![t].it = "on"], "get_search_url_iter", last)

\* line 102, the items are iterated and the URL returned
get_search_url_iter(t) ==
  /\ pc[t] = "get_search_url_iter"
  /\ UNCHANGED <<attrs, pure>>
  /\ LET a == items_iterated(t)
     IN IF a.t = "raise"
        THEN Finish(t, [frame EXCEPT ![t].it = "none"], a, last)
        ELSE Finish(t, [frame EXCEPT ![t].args = a.v, ![t].it = "none"],
                    Return(get_search_url_value(frame[t].url, a.v)), last)

\* ----------------------------------------------------------- lookup_taxon
\* line 137: the request of lookup_taxon(scientificname)
lookup_request(scientificname) ==
  [to |-> "lookup_taxon",
   url |-> PyStr(<<"https://api.obis.org/v3/taxon/complete/">> \o py_str(scientificname).v),
   params |-> None]

\* a call of lookup_taxon(scientificname) on facade f
lookup_taxon(t, f, scientificname) ==
  /\ pc[t] = "idle"
  /\ UNCHANGED <<attrs, pure>>
  /\ Goto(t, [frame EXCEPT ![t] = [NewFrame("lookup_taxon", f, scientificname) EXCEPT
                                     !.scientificname = scientificname]],
          "lookup_taxon_137", last)

\* line 137: res = requests.get(f"https://api.obis.org/v3/taxon/complete/{scientificname}")
lookup_taxon_get(t, Responses) ==
  /\ pc[t] = "lookup_taxon_137"
  /\ UNCHANGED <<attrs, pure>>
  /\ \E r \in Responses :
       LET fr == [frame EXCEPT ![t].sent = lookup_request(frame[t].scientificname),
                               ![t].resp = r]
       IN IF r.status = 0 THEN Finish(t, fr, r.body, last)
          ELSE Goto(t, fr, "lookup_taxon_138", last)

\* doc[0]["id"]: doc[0] is an IndexError on an empty list or str and a
\* KeyError on a dict (its keys are strings); ["id"] is a TypeError on what
\* is no dict
first_id(doc) ==
  IF doc.t = "list"
  THEN IF doc.v = <<>> THEN Raise("IndexError")
       ELSE IF doc.v[1].t # "dict" THEN Raise("TypeError")
       ELSE dict_item(doc.v[1], PyStr(<<"i", "d">>))
  ELSE IF doc.t = "dict" THEN Raise("KeyError")
  ELSE IF doc.t = "str" THEN (IF doc.v = <<>> THEN Raise("IndexError") ELSE Raise("TypeError"))
  ELSE Raise("TypeError")

\* line 138: return res.json(); a call by get_mapper_url goes on in line 119
\* with the subscripts [0]["id"]
lookup_taxon_json(t) ==
  /\ pc[t] = "lookup_taxon_138"
  /\ UNCHANGED <<attrs, pure>>
  /\ LET doc == frame[t].resp.body
     IN IF doc.t = "raise" \/ frame[t].op = "lookup_taxon"
        THEN Finish(t, frame, doc, last)
        ELSE LET id == first_id(doc.v)
             IN IF id.t = "raise" THEN Finish(t, frame, id, last)
                ELSE Goto(t, [frame EXCEPT ![t].id = id.v], "get_mapper_url_119", last)

\* --------------------------------------------------------- get_mapper_url
\* line 121: "https://mapper.obis.org/" + "?" + urlencode({k:v for ... if not v == None})
mapper_url(a) ==
  PyStr(mapper_baseurl.v \o <<"?">> \o urlencode(PyDict(not_none_items(a.v))).v)

\* line 118, not self.args["taxonid"]: an AttributeError when args was never
\* assigned, a KeyError when it has no such key
get_mapper_url(t, f) ==
  /\ pc[t] = "idle"
  /\ UNCHANGED <<attrs, pure>>
  /\ LET fr == [frame EXCEPT ![t] = NewFrame("get_mapper_url", f, Unset)]
         a == attrs[f].args
     IN IF a = Unset THEN Finish(t, fr, Raise("AttributeError"), last)
        ELSE LET v == dict_item(a, k_taxonid)
             IN IF v.t = "raise" THEN Finish(t, fr, v, last)
                ELSE IF truthy(v.v) THEN Goto(t, fr, "get_mapper_url_121", last)
                ELSE Goto(t, fr, "get_mapper_url_118", last)

\* line 118, and self.args["scientificname"]
get_mapper_url_name(t) ==
  /\ pc[t] = "get_mapper_url_118"
  /\ UNCHANGED <<attrs, pure>>
  /\ LET v == dict_item(attrs[frame[t].self].args, k_scientificname)
     IN IF v.t = "raise" THEN Finish(t, frame, v, last)
        ELSE IF truthy(v.v) THEN Goto(t, frame, "get_mapper_url_arg", last)
        ELSE Goto(t, frame, "get_mapper_url_121", last)

\* line 119, the argument self.args["scientificname"] of self.lookup_taxon
get_mapper_url_arg(t) ==
  /\ pc[t] = "get_mapper_url_arg"
  /\ UNCHANGED <<attrs, pure>>
  /\ LET v == dict_item(attrs[frame[t].self].args, k_scientificname)
     IN IF v.t = "raise" THEN Finish(t, frame, v, last)
        ELSE Goto(t, [frame EXCEPT ![t].scientificname = v.v], "lookup_taxon_137", last)

\* line 119, self.args["taxonid"] = ...: the item is set in the dict that is
\* self.args now
get_mapper_url_store(t) ==
  /\ pc[t] = "get_mapper_url_119"
  /\ UNCHANGED pure
  /\ LET f == frame[t].self
         a == attrs[f].args
     IN /\ attrs' = store_attr(attrs, f, "args", dict_set(a, k_taxonid, frame[t].id))
        /\ Goto(t, Mutated(frame, t, f, dict_set(a, k_taxonid, frame[t].id),
                           ~has_key(a, k_taxonid)), "get_mapper_url_121", last)

\* line 121, self.args is read and the iterator over its items made
get_mapper_url_items(t) ==
  /\ pc[t] = "get_mapper_url_121"
  /\ UNCHANGED <<attrs, pure>>
  /\ Goto(t, [frame EXCEPT ![t].args = attrs[frame[t].self].args, ![t].it = "on"],
          "get_mapper_url_iter", last)

\* line 121, the items are iterated and the URL returned
get_mapper_url_iter(t) ==
  /\ pc[t] = "get_mapper_url_iter"
  /\ UNCHANGED <<attrs, pure>>
  /\ LET a == items_iterated(t)
     IN IF a.t = "raise"
        THEN Finish(t, [frame EXCEPT ![t].it = "none"], a, last)
        ELSE Finish(t, [frame EXCEPT ![t].args = a.v, ![t].it = "none"],
                    Return(mapper_url(a.v)), last)

\* ------------------------------------------------------------------ inputs
\* the sequences of length at most n over the set S
SeqsUpTo(S, n) == UNION {[1..k -> S] : k \in 0..n}

\* names given to search and annotations: absent, strings, lists of strings,
\* a dict with a string key, and arguments that are none of these (an
\* integer, a list holding an integer)
AbraAlba ==
  PyStr(<<"A", "b", "r", "a", " ", "a", "l", "b", "a", " ", "(", "W", ".", " ",
          "W", "o", "o", "d", ",", " ", "1", "8", "0", "2", ")">>)
NameInputs ==
  {None, PyInt(5), PyStr(<<>>), PyStr(<<"a">>), AbraAlba,
   PyList(<<>>), PyList(<<PyStr(<<"a">>), PyStr(<<"b">>)>>), PyList(<<PyStr(<<"a">>), PyInt(5)>>),
   PyDict(<< <<PyStr(<<"a">>), PyInt(1)>> >>)}
IdInputs == {PyInt(0), PyInt(402913)}

\* what the server answers a facade call
FacadeResponses ==
  {NoResponse,
   Response(200, Header(json_ctype), Return(Doc)),
   Response(200, Header(json_ctype), Raise("JSONDecodeError")),
   Response(200, Header("text/html"), Return(Doc)),
   Response(404, Header(json_ctype), Return(Doc))}

\* what the server answers lookup_taxon
LookupNames == {None, PyStr(<<"a">>), PyStr(<<"O", "'", "B">>)}
LookupResponses ==
  {NoResponse,
   Response(200, Header(json_ctype),
            Return(PyList(<< PyDict(<< <<PyStr(<<"i", "d">>), PyInt(127405)>> >>) >>))),
   Response(200, Header(json_ctype), Return(PyList(<<>>))),
   Response(200, Header(json_ctype), Return(PyList(<< PyDict(<<>>) >>))),
   Response(200, Header(json_ctype), Return(PyStr(<<>>))),
   Response(404, Header(json_ctype), Return(Doc)),
   Response(404, Header("text/html"), Raise("JSONDecodeError"))}

\* the responses and expected content-types of a direct obis_GET call
Statuses == {200, 204, 304, 400, 404, 500, 599}
Headers ==
  {NoHeader, Header(""), Header(json_ctype), Header("application/json; charset=UTF-8"),
   Header("application/json"), Header("text/html")}
AllResponses ==
  {NoResponse} \cup
  {Response(st, h, b) : st \in Statuses, h \in Headers, b \in {Return(Doc), Raise("JSONDecodeError")}}
CTypes == {json_ctype, "application/json", "text/html", ""}

\* arguments of handle_arrstr
ArrstrStrings == {PyStr(s) : s \in SeqsUpTo({"a", ","}, MaxLen)}
ArrstrInputs ==
  {None, PyInt(5), PyList(<<PyInt(5)>>), PyList(<<PyStr(<<"a">>), PyInt(5)>>),
   PyDict(<<>>), PyDict(<< <<PyStr(<<"a">>), PyInt(1)>> >>),
   PyDict(<< <<PyStr(<<"a">>), PyInt(1)>>, <<PyStr(<<",">>), None>> >>),
   PyDict(<< <<PyInt(1), PyStr(<<"a">>)>> >>)}
  \cup ArrstrStrings
  \cup {PyList(xs) : xs \in SeqsUpTo(ArrstrStrings, MaxList)}

\* query-argument mappings: at most MaxArgs entries with distinct keys
QueryKeys == {k_scientificname, k_taxonid, PyStr(<<"q", "&">>)}
QueryValues ==
  {None, PyInt(0), PyInt(42), PyStr(<<"(", "é", "\n">>)}
  \cup {PyStr(s) : s \in SeqsUpTo({"a", " ", "&", "=", ":", "+", "%"}, 1)}
QueryArgs ==
  {PyDict(items) : items \in
     {its \in SeqsUpTo(QueryKeys \X QueryValues, MaxArgs) :
        \A i, j \in 1..Len(its) : i # j => its[i][1] # its[j][1]}}

\* the dicts a caller assigns to args
MapperArgs ==
  {PyDict(items) : items \in
     {its \in SeqsUpTo({k_scientificname, k_taxonid}
                        \X {None, PyInt(0), PyInt(7), PyStr(<<>>), PyStr(<<"a", " ">>),
                            PyDict(<<>>)}, 2) :
        \A i, j \in 1..Len(its) : i # j => its[i][1] # its[j][1]}}

\* ------------------------------------------------ the helpers on their own
PureCalls ==
  {[fn |-> "handle_arrstr", arg |-> <<x>>, out |-> Pending] : x \in ArrstrInputs}
  \cup {[fn |-> "build_api_url", arg |-> <<u, a>>, out |-> Pending] :
          u \in {obis_baseurl, mapper_baseurl}, a \in QueryArgs}

apply_handle_arrstr ==
  /\ pure.fn = "handle_arrstr" /\ pure.out = Pending
  /\ pure' = [pure EXCEPT !.out = handle_arrstr(pure.arg[1])]
  /\ UNCHANGED <<attrs, pc, frame, result, last>>

apply_build_api_url ==
  /\ pure.fn = "build_api_url" /\ pure.out = Pending
  /\ pure' = [pure EXCEPT !.out = Return(build_api_url(pure.arg[1], pure.arg[2]))]
  /\ UNCHANGED <<attrs, pc, frame, result, last>>

\* --------------------------------------------------------- specifications
\* one thread calling one facade
Init == InitFacade /\ pure = NoPure

Next ==
  \E t \in {"t1"} :
    \/ \E x \in NameInputs : search(t, "f1", x)
    \/ search_args(t)
    \/ \E id \in IdInputs : taxon(t, "f1", id)
    \/ taxon_args(t)
    \/ \E x \in NameInputs : annotations(t, "f1", x)
    \/ annotations_args(t)
    \/ load_self_url(t)
    \/ load_self_args(t)
    \/ requests_get(t, FacadeResponses)
    \/ raise_for_status(t)
    \/ obis_GET_stopifnot(t)
    \/ obis_GET_json(t)
    \/ get_search_url(t, "f1")
    \/ get_search_url_args(t)
    \/ get_search_url_iter(t)
    \/ \E a \in MapperArgs : assign_args(t, "f1", a)
    \/ get_mapper_url(t, "f1")
    \/ get_mapper_url_name(t)
    \/ get_mapper_url_arg(t)
    \/ \E n \in LookupNames : lookup_taxon(t, "f1", n)
    \/ lookup_taxon_get(t, LookupResponses)
    \/ lookup_taxon_json(t)
    \/ get_mapper_url_store(t)
    \/ get_mapper_url_items(t)
    \/ get_mapper_url_iter(t)

Spec == Init /\ [][Next]_vars

\* two threads: both call the facade f1, t1 also queries a facade f2 of its
\* own; the caller's assignments and the mapper calls are on the shared f1
ConcName == [t \in Threads |-> IF t = "t1" THEN PyStr(<<"a">>) ELSE PyStr(<<"b">>)]
ConcFacades == [t \in Threads |-> IF t = "t1" THEN Facades ELSE {"f1"}]
ConcResponses == {Response(200, Header(json_ctype), Return(Doc))}
ConcArgs == {PyDict(<< <<k_taxonid, None>>, <<k_scientificname, PyStr(<<"a">>)>> >>)}
ConcLookup ==
  {Response(200, Header(json_ctype),
            Return(PyList(<< PyDict(<< <<PyStr(<<"i", "d">>), PyInt(127405)>> >>) >>)))}

NextConc ==
  \E t \in Threads :
    \/ \E f \in ConcFacades[t] : search(t, f, ConcName[t])
    \/ search_args(t)
    \/ \E f \in ConcFacades[t] : taxon(t, f, PyInt(5))
    \/ taxon_args(t)
    \/ \E f \in ConcFacades[t] : annotations(t, f, ConcName[t])
    \/ annotations_args(t)
    \/ load_self_url(t)
    \/ load_self_args(t)
    \/ requests_get(t, ConcResponses)
    \/ raise_for_status(t)
    \/ obis_GET_stopifnot(t)
    \/ obis_GET_json(t)
    \/ \E f \in ConcFacades[t] : get_search_url(t, f)
    \/ get_search_url_args(t)
    \/ get_search_url_iter(t)
    \/ \E a \in ConcArgs : assign_args(t, "f1", a)
    \/ get_mapper_url(t, "f1")
    \/ get_mapper_url_name(t)
    \/ get_mapper_url_arg(t)
    \/ lookup_taxon_get(t, ConcLookup)
    \/ lookup_taxon_json(t)
    \/ get_mapper_url_store(t)
    \/ get_mapper_url_items(t)
    \/ get_mapper_url_iter(t)

SpecConc == Init /\ [][NextConc]_vars

\* a caller of obis_GET
NextGet ==
  \E t \in {"t1"} :
    \/ \E c \in CTypes : obis_GET(t, str_add(obis_baseurl, PyStr(<<"taxon/annotations">>)).v,
                                  PyDict(<<>>), c)
    \/ requests_get(t, AllResponses)
    \/ raise_for_status(t)
    \/ obis_GET_stopifnot(t)
    \/ obis_GET_json(t)

SpecGet == Init /\ [][NextGet]_vars

\* the helpers applied to each of their inputs
InitPure == InitFacade /\ pure \in PureCalls

NextPure == apply_handle_arrstr \/ apply_build_api_url

SpecPure == InitPure /\ [][NextPure]_vars

\* ================================================================= claims
FetchOps == {"search", "taxon", "annotations"}
IsFailure(status) == status >= 400 /\ status < 600

\* ----------------------------------------------------------------- C1
\* C1: obis_GET checks the HTTP status before the content-type: a call whose
\* response has a failure status (400 to 599) never reaches stopifnot nor
\* out.json(), whatever the content-type header, and ends with the HTTPError.
C1_StatusBeforeContentType ==
  \A t \in Threads :
    (frame[t].resp # Unset /\ IsFailure(frame[t].resp.status)) =>
      /\ "stopifnot" \notin frame[t].reached
      /\ "json" \notin frame[t].reached
      /\ pc[t] \in {"obis_GET_25", "idle"}
      /\ pc[t] = "idle" => result[t] = Raise("HTTPError")

\* a 404 whose content-type is not the expected one has ended with the HTTPError
C1_Witness ==
  \E t \in Threads :
    /\ pc[t] = "idle" /\ frame[t].op = "obis_GET"
    /\ frame[t].resp = Response(404, Header("text/html"), Return(Doc))
    /\ frame[t].ctype = json_ctype
    /\ result[t] = Raise("HTTPError")

\* ----------------------------------------------------------------- C2
\* C2: a response of non-failure status whose content-type header differs
\* from the expected content-type ends the call with NoResultException and
\* out.json() is not reached; out.json() is reached only when the header
\* equals the expected string exactly.
C2_ContentTypeMismatch ==
  \A t \in Threads :
    (frame[t].resp # Unset /\ frame[t].resp.status # 0) =>
      /\ "json" \in frame[t].reached => frame[t].resp.headers = Header(frame[t].ctype)
      /\ pc[t] = "obis_GET_27" => frame[t].resp.headers = Header(frame[t].ctype)
      /\ ( /\ pc[t] = "idle"
           /\ ~IsFailure(frame[t].resp.status)
           /\ frame[t].resp.headers # NoHeader
           /\ frame[t].resp.headers # Header(frame[t].ctype) )
         => /\ result[t] = Raise("NoResultException")
            /\ "json" \notin frame[t].reached

\* a 200 text/html response to a call expecting JSON has ended with NoResultException
C2_Witness ==
  \E t \in Threads :
    /\ pc[t] = "idle" /\ frame[t].op = "obis_GET"
    /\ frame[t].resp = Response(200, Header("text/html"), Return(Doc))
    /\ frame[t].ctype = json_ctype
    /\ result[t] = Raise("NoResultException")
    /\ frame[t].reached = {"requests.get", "raise_for_status", "stopifnot"}

\* ----------------------------------------------------------------- C3
\* reading a query string back: split at "&", each part at its first "=",
\* "+" read as a space, %XX as a byte, the bytes decoded as UTF-8
HexVal(c) ==
  IndexOf(<<"0", "1", "2", "3", "4", "5", "6", "7", "8", "9", "A", "B", "C", "D", "E", "F">>, c, 1) - 1

RECURSIVE unquote_bytes(_)
unquote_bytes(s) ==
  IF s = <<>> THEN <<>>
  ELSE IF Head(s) = "+" THEN <<32>> \o unquote_bytes(Tail(s))
  ELSE IF Head(s) = "%" /\ Len(s) >= 3
       THEN <<16 * HexVal(s[2]) + HexVal(s[3])>> \o unquote_bytes(SubSeq(s, 4, Len(s)))
  ELSE utf8(ord(Head(s))) \o unquote_bytes(Tail(s))

\* the character of a code
chr(cp) ==
  CASE cp = 9 -> "\t"
    [] cp = 10 -> "\n"
    [] cp = 12 -> "\f"
    [] cp = 13 -> "\r"
    [] cp >= 32 /\ cp <= 95 -> Ascii[cp - 31]
    [] cp >= 97 /\ cp <= 126 -> Lower[cp - 96]
    [] cp >= 160 /\ cp <= 255 -> Latin1[cp - 159]

RECURSIVE utf8_decode(_)
utf8_decode(bytes) ==
  IF bytes = <<>> THEN <<>>
  ELSE IF Head(bytes) < 128 THEN <<chr(Head(bytes))>> \o utf8_decode(Tail(bytes))
  ELSE <<chr((Head(bytes) - 192) * 64 + (bytes[2] - 128))>>
       \o utf8_decode(SubSeq(bytes, 3, Len(bytes)))

unquote_plus(s) == utf8_decode(unquote_bytes(s))

RECURSIVE SplitOn(_, _)
SplitOn(s, c) ==
  LET i == IndexOf(s, c, 1)
  IN IF i = 0 THEN <<s>> ELSE <<SubSeq(s, 1, i - 1)>> \o SplitOn(SubSeq(s, i + 1, Len(s)), c)

ParsePair(p) ==
  LET i == IndexOf(p, "=", 1)
  IN IF i = 0 THEN <<unquote_plus(p)>>
     ELSE <<unquote_plus(SubSeq(p, 1, i - 1)), unquote_plus(SubSeq(p, i + 1, Len(p)))>>

ParseQuery(q) ==
  IF q = <<>> THEN <<>>
  ELSE LET parts == SplitOn(q, "&") IN [i \in 1..Len(parts) |-> ParsePair(parts[i])]

\* the entries of a mapping whose value is present, as <<name, value>> strings, in order
IsPresent(item) == item[2].t # "NoneType"
PresentEntries(args) ==
  LET sel == SelectSeq(args.v, IsPresent)
  IN [i \in 1..Len(sel) |-> <<py_str(sel[i][1]).v, py_str(sel[i][2]).v>>]

\* C3: build_api_url(url, args) is url, "?" and a query string that reads
\* back as exactly the entries of args whose value is not None, each once, in
\* the order of the mapping.
C3_QueryString ==
  (pure.fn = "build_api_url" /\ pure.out # Pending) =>
    LET url == pure.arg[1].v
        s == pure.out.v.v
    IN /\ pure.out.t = "return" /\ pure.out.v.t = "str"
       /\ Len(s) >= Len(url) + 1
       /\ SubSeq(s, 1, Len(url) + 1) = url \o <<"?">>
       /\ ParseQuery(SubSeq(s, Len(url) + 2, Len(s))) = PresentEntries(pure.arg[2])

\* a mapping with an absent taxonid and a scientificname of characters that
\* are percent-encoded, one of them in two bytes
C3_Witness ==
  /\ pure.fn = "build_api_url"
  /\ pure.arg = <<obis_baseurl,
                 PyDict(<< <<k_taxonid, None>>, <<k_scientificname, PyStr(<<"(", "é", "\n">>)>> >>)>>
  /\ pure.out # Pending
  /\ Flat(pure.out.v.v) = "https://api.obis.org/v3/?scientificname=%28%C3%A9%0A"

\* ----------------------------------------------------------------- C7
\* what iterating x yields: the elements of a list, the keys of a dict
Yields(x) == IF x.t = "dict" THEN [i \in 1..Len(x.v) |-> x.v[i][1]] ELSE x.v

IsStrIterable(x) == x.t \in {"list", "dict"} /\ \A i \in 1..Len(x.v) : Yields(x)[i].t = "str"

\* where element i of xs starts in the joined string, less one
RECURSIVE Offset(_, _)
Offset(xs, i) == IF i <= 1 THEN 0 ELSE Offset(xs, i - 1) + Len(xs[i - 1].v) + 1

\* s is the elements of xs in order with one "," between neighbours
IsJoined(s, xs) ==
  /\ Len(s) = IF xs = <<>> THEN 0 ELSE Offset(xs, Len(xs) + 1) - 1
  /\ \A i \in 1..Len(xs) :
       /\ SubSeq(s, Offset(xs, i) + 1, Offset(xs, i) + Len(xs[i].v)) = xs[i].v
       /\ i > 1 => s[Offset(xs, i)] = ","

\* C7 as stated: handle_arrstr returns None for None, a string unchanged, and
\* for any other input returns its elements joined with ",".
C7_Original ==
  (pure.fn = "handle_arrstr" /\ pure.out # Pending) =>
    LET x == pure.arg[1]
    IN CASE x.t = "NoneType" -> pure.out = Return(None)
         [] x.t = "str" -> pure.out = Return(x)
         [] OTHER -> /\ pure.out.t = "return"
                     /\ IsStrIterable(x) => IsJoined(pure.out.v.v, Yields(x))

\* C7: handle_arrstr returns None for None, a string unchanged, and for an
\* iterable of strings (a list of strings, a dict whose keys are strings)
\* what it yields joined with "," in order; for any other input (not
\* iterable, or yielding an element that is no string) it raises a
\* TypeError.
C7_HandleArrstr ==
  (pure.fn = "handle_arrstr" /\ pure.out # Pending) =>
    LET x == pure.arg[1]
    IN CASE x.t = "NoneType" -> pure.out = Return(None)
         [] x.t = "str" -> pure.out = Return(x)
         [] IsStrIterable(x) -> /\ pure.out.t = "return" /\ pure.out.v.t = "str"
                                /\ IsJoined(pure.out.v.v, Yields(x))
         [] OTHER -> pure.out = Raise("TypeError")

\* a list of two strings, one of them holding a comma, has been joined
C7_Witness ==
  /\ pure.fn = "handle_arrstr"
  /\ pure.arg = << PyList(<<PyStr(<<"a">>), PyStr(<<",", "a">>)>>) >>
  /\ pure.out = Return(PyStr(<<"a", ",", ",", "a">>))

\* ------------------------------------------------- what a call is to store
\* the name search and annotations work with
NameOf(x) == handle_arrstr(x).v
\* the call gets to both of its assignments (it does not fail on its argument)
Stores(c) ==
  CASE c.op = "search" -> handle_arrstr(c.arg).t = "return" /\ NameOf(c.arg).t = "str"
    [] c.op = "annotations" -> handle_arrstr(c.arg).t = "return"
    [] c.op = "taxon" -> TRUE
    [] OTHER -> FALSE
ExpectedUrl(c) ==
  CASE c.op = "search" -> PyStr(<<"https://api.obis.org/v3/", "taxon/">> \o NameOf(c.arg).v)
    [] c.op = "taxon" -> PyStr(<<"https://api.obis.org/v3/", "taxon/">> \o py_str(c.arg).v)
    [] c.op = "annotations" -> PyStr(<<"https://api.obis.org/v3/", "taxon/annotations">>)
ExpectedArgs(c) ==
  IF c.op = "taxon" THEN PyDict(<<>>) ELSE PyDict(<< <<k_scientificname, NameOf(c.arg)>> >>)
\* the URL of the call's query: its url, "?" and its encoded arguments that are not None
ExpectedQuery(c) ==
  IF c.op = "taxon" \/ NameOf(c.arg) = None
  THEN <<"?">>
  ELSE <<"?">> \o k_scientificname.v \o <<"=">> \o quote_plus(NameOf(c.arg).v)
ExpectedSearchUrl(c) == PyStr(ExpectedUrl(c).v \o ExpectedQuery(c))

\* ----------------------------------------------------------------- C4
\* C4 as stated: get_search_url fails on a facade no call was made on, and
\* after any calls it returns the url of the most recent search, taxon or
\* annotations call, "?" and the encoded arguments of that same call.
C4_Original ==
  \A t \in Threads :
    (pc[t] = "idle" /\ frame[t].op = "get_search_url") =>
      LET c == last[frame[t].self]
      IN /\ c.op = "none" => result[t].t = "raise"
         /\ c.op \in FetchOps => (Stores(c) /\ result[t] = Return(ExpectedSearchUrl(c)))

\* C4: get_search_url fails with an AttributeError on a facade no call was
\* made on; when the most recent search, taxon or annotations call did not
\* fail on its argument (search of an absent name, a name that is neither a
\* string nor a sequence of strings), it returns the url of that call, "?"
\* and the encoded arguments of that same call.
C4_GetSearchUrl ==
  \A t \in Threads :
    (pc[t] = "idle" /\ frame[t].op = "get_search_url") =>
      LET c == last[frame[t].self]
      IN /\ c.op = "none" => result[t] = Raise("AttributeError")
         /\ (c.op \in FetchOps /\ Stores(c)) => result[t] = Return(ExpectedSearchUrl(c))

\* get_search_url after search("Abra alba (W. Wood, 1802)")
C4_Witness ==
  \E t \in Threads :
    /\ pc[t] = "idle" /\ frame[t].op = "get_search_url"
    /\ last[frame[t].self].op = "search"
    /\ last[frame[t].self].arg = AbraAlba
    /\ result[t].t = "return"
    /\ Flat(result[t].v.v) =
         "https://api.obis.org/v3/taxon/Abra alba (W. Wood, 1802)?scientificname=Abra+alba+%28W.+Wood%2C+1802%29"

\* ----------------------------------------------------------------- C5
\* the id of the first match in the response r of lookup_taxon
FirstMatch(r) == IF r.body.t = "raise" THEN r.body ELSE first_id(r.body.v)

\* C5: when get_mapper_url is called in the state search(name) or
\* annotations(name) left, with a name that is present, it issues the
\* lookup_taxon request, stores the id of the first match as args["taxonid"]
\* and returns the mapper URL of the args.
C5_MapperLookup ==
  \A t \in Threads :
    ( /\ pc[t] = "idle" /\ frame[t].op = "get_mapper_url"
      /\ last[frame[t].self].op \in {"search", "annotations"}
      /\ last[frame[t].self].out # Raise("TypeError")
      /\ truthy(NameOf(last[frame[t].self].arg)) )
    => /\ frame[t].sent = lookup_request(NameOf(last[frame[t].self].arg))
       /\ FirstMatch(frame[t].resp).t = "return" =>
            /\ has_key(attrs[frame[t].self].args, k_taxonid)
            /\ dict_get(attrs[frame[t].self].args, k_taxonid) = FirstMatch(frame[t].resp).v
            /\ result[t] = Return(mapper_url(attrs[frame[t].self].args))

\* ----------------------------------------------------------------- C6
\* C6: a get_mapper_url call on a facade whose args mapping has no taxonid
\* key fails with a KeyError, issues no lookup_taxon request and leaves url
\* and args as they were.
C6_MapperKeyError ==
  [][\A t \in Threads : \A f \in Facades :
       ( /\ pc[t] = "idle"
         /\ frame'[t].op = "get_mapper_url" /\ frame'[t].self = f
         /\ attrs[f].args # Unset
         /\ ~has_key(attrs[f].args, k_taxonid) )
       => /\ pc'[t] = "idle"
          /\ result'[t] = Raise("KeyError")
          /\ frame'[t].sent = Unset
          /\ attrs' = attrs]_vars

\* get_mapper_url after taxon(402913): a KeyError, the empty args untouched
C6_Witness ==
  \E t \in Threads :
    /\ pc[t] = "idle" /\ frame[t].op = "get_mapper_url"
    /\ last[frame[t].self] = [op |-> "taxon", arg |-> PyInt(402913), by |-> t,
                              out |-> Return(Doc)]
    /\ attrs[frame[t].self].args = PyDict(<<>>)
    /\ result[t] = Raise("KeyError")
    /\ frame[t].sent = Unset

\* ----------------------------------------------------------------- C8
\* C8: a search call with an absent scientificname ends at once with a
\* TypeError, issues no request, and leaves url and args of the facade
\* exactly as they were (unset if they were unset).
C8_SearchAbsentName ==
  [][\A t \in Threads :
       (pc[t] = "idle" /\ frame'[t].op = "search" /\ frame'[t].arg = None)
       => /\ pc'[t] = "idle"
          /\ result'[t] = Raise("TypeError")
          /\ frame'[t].sent = Unset /\ frame'[t].reached = {}
          /\ attrs' = attrs]_vars

\* search(None) after taxon(402913): the TypeError, url and args still the taxon call's
C8_Witness ==
  \E t \in Threads :
    /\ pc[t] = "idle" /\ frame[t].op = "search" /\ frame[t].arg = None
    /\ result[t] = Raise("TypeError")
    /\ frame[t].sent = Unset
    /\ last[frame[t].self].op = "search"
    /\ attrs[frame[t].self].url # Unset
    /\ Flat(attrs[frame[t].self].url.v) = "https://api.obis.org/v3/taxon/402913"
    /\ attrs[frame[t].self].args = PyDict(<<>>)

\* ----------------------------------------------------------------- C10
FetchFailures == {Raise("HTTPError"), Raise("NoResultException")}

\* C10: search (of a present name), taxon and annotations assign url and
\* args before the fetch: once the request is made the facade holds the url
\* and args of this call, a failing fetch ends the call with its error, and a
\* get_search_url that follows a failed fetch returns the failed query's URL.
C10_StoredBeforeFetch ==
  \A t \in Threads :
    /\ (frame[t].op \in FetchOps /\ "requests.get" \in frame[t].reached) =>
         /\ attrs[frame[t].self].url = ExpectedUrl(frame[t])
         /\ attrs[frame[t].self].args = ExpectedArgs(frame[t])
         /\ frame[t].sent.url = ExpectedUrl(frame[t])
         /\ frame[t].sent.params = ExpectedArgs(frame[t])
         /\ (pc[t] = "idle" /\ frame[t].resp.status # 0 /\ IsFailure(frame[t].resp.status))
              => result[t] = Raise("HTTPError")
         /\ (pc[t] = "idle" /\ frame[t].resp.status = 200 /\ frame[t].resp.headers = Header("text/html"))
              => result[t] = Raise("NoResultException")
    /\ ( /\ pc[t] = "idle" /\ frame[t].op = "get_search_url"
         /\ last[frame[t].self].out \in FetchFailures )
       => result[t] = Return(ExpectedSearchUrl(last[frame[t].self]))

\* get_search_url after a search("a") that got a 404
C10_Witness ==
  \E t \in Threads :
    /\ pc[t] = "idle" /\ frame[t].op = "get_search_url"
    /\ last[frame[t].self] = [op |-> "search", arg |-> PyStr(<<"a">>), by |-> t,
                              out |-> Raise("HTTPError")]
    /\ result[t].t = "return"
    /\ Flat(result[t].v.v) = "https://api.obis.org/v3/taxon/a?scientificname=a"

\* ----------------------------------------------------------------- C9
\* the request of thread t pairs the url and the args of its own call
OwnPair(t) ==
  /\ frame[t].sent.url = ExpectedUrl(frame[t])
  /\ frame[t].sent.params = ExpectedArgs(frame[t])

\* C9: calls on distinct facade instances never touch each other's url and
\* args, and a request is issued with a url and args that are not of one call
\* only when another thread assigned an attribute of the same instance while
\* the call ran (which, as the witness shows, does happen: nothing prevents it).
C9_SharedInstanceRace ==
  /\ [](\A t \in Threads :
          (frame[t].op \in FetchOps /\ frame[t].sent # Unset /\ ~OwnPair(t)) => frame[t].raced)
  /\ [][\A f \in Facades : attrs'[f] # attrs[f] =>
          \A t \in Threads : pc'[t] # pc[t] => frame'[t].self = f]_vars

\* two search calls raced on f1: the request of t2's search("b") went out
\* with the url of t1's search("a"), and get_search_url then reports that pair
C9_Witness ==
  /\ pc["t1"] = "idle" /\ pc["t2"] = "idle"
  /\ frame["t2"].op = "search" /\ frame["t2"].arg = PyStr(<<"b">>) /\ frame["t2"].self = "f1"
  /\ frame["t2"].sent # Unset
  /\ Flat(frame["t2"].sent.url.v) = "https://api.obis.org/v3/taxon/a"
  /\ frame["t2"].sent.params = PyDict(<< <<k_scientificname, PyStr(<<"b">>)>> >>)
  /\ frame["t1"].op = "get_search_url" /\ frame["t1"].self = "f1"
  /\ result["t1"].t = "return"
  /\ Flat(result["t1"].v.v) = "https://api.obis.org/v3/taxon/a?scientificname=b"
  /\ attrs["f2"] = NoAttrs

====
